---- MODULE Spec2Model ----
(***************************************************************************)
(* A model of toypc: a two-register virtual machine (src/src/cpu.rs) that  *)
(* fetches textual instruction lines from a ROM (src/src/rom.rs) and is    *)
(* driven by the loop of main (src/src/main.rs).                           *)
(*                                                                         *)
(* Lines are strings; the decoder is modelled character by character       *)
(* (split on a space, split_at(1), usize::from_str).  A Rust panic ends    *)
(* the process: it is modelled as status = "Panicked" with the message     *)
(* kept in panic_msg.  Registers are u64 in the source; the model scales   *)
(* the width down to RegBits bits.  An arithmetic overflow panics in a     *)
(* build with overflow checks (debug profile) and wraps in one without     *)
(* (release profile); overflow_checks is fixed when the machine is built.  *)
(***************************************************************************)
EXTENDS Integers, Sequences, FiniteSets, TLC

VARIABLES rom, a, b, pc, i, status, panic_msg, overflow_checks, last

vars == <<rom, a, b, pc, i, status, panic_msg, overflow_checks, last>>

(***************************************************************************)
(* Bounds of the model.                                                    *)
(***************************************************************************)
\* width of a register in bits (64 in the source)
RegBits == 3
\* longest program built freely from Lines
MaxLen == 2
\* most inc lines at the head of a program that first sets the registers
MaxIncs == 8
\* width of the pc in bits (usize in the source: 64 on a 64-bit target)
PcBits == 4

\* for i in 1..10 of main: first value and exclusive end of the loop variable
LoopFirst == 1
LoopEnd == 10

RECURSIVE Pow2(_)
Pow2(n) == IF n = 0 THEN 1 ELSE 2 * Pow2(n - 1)

\* one more than the largest value of a register
RegModulus == Pow2(RegBits)
RegMax == RegModulus - 1

\* one more than the largest value of the pc
PcModulus == Pow2(PcBits)
PcMax == PcModulus - 1

RegisterId == {"A", "B"}

(***************************************************************************)
(* Panic messages of the source, and the ones of the Rust runtime.         *)
(***************************************************************************)
NoPanic == "none"
IndexOutOfBounds == "index out of bounds"
IllegalInstruction == "unimplemented or illegal instruction"
InvalidArgCount == "Invalid number of arguments"
InvalidRegister == "Invalid register name"
UnexpectedSign == "Unexpected sign"
SplitAtPanic == "byte index 1 is out of bounds"
UnwrapErr == "called Result::unwrap() on an Err value"
AddOverflow == "attempt to add with overflow"
MulOverflow == "attempt to multiply with overflow"

\* the panics raised while a line is being parsed
DecodePanics ==
    {IllegalInstruction, InvalidArgCount, InvalidRegister, UnexpectedSign,
     SplitAtPanic, UnwrapErr}

(***************************************************************************)
(* Strings.                                                                *)
(***************************************************************************)
CharAt(s, k) == SubSeq(s, k, k)

\* str::split on a space: the pieces between every two separators, empty ones kept
RECURSIVE SplitFrom(_, _, _, _)
SplitFrom(s, k, cur, acc) ==
    IF k > Len(s) THEN Append(acc, cur)
    ELSE IF CharAt(s, k) = " " THEN SplitFrom(s, k + 1, "", Append(acc, cur))
    ELSE SplitFrom(s, k + 1, cur \o CharAt(s, k), acc)

split(s) == SplitFrom(s, 1, "", <<>>)

Digit(c) ==
    CASE c = "0" -> 0 [] c = "1" -> 1 [] c = "2" -> 2 [] c = "3" -> 3
      [] c = "4" -> 4 [] c = "5" -> 5 [] c = "6" -> 6 [] c = "7" -> 7
      [] c = "8" -> 8 [] c = "9" -> 9 [] OTHER -> -1

RECURSIVE ParseDigits(_, _, _)
ParseDigits(s, k, acc) ==
    IF k > Len(s) THEN acc
    ELSE IF Digit(CharAt(s, k)) < 0 THEN -1
    ELSE ParseDigits(s, k + 1, 10 * acc + Digit(CharAt(s, k)))

\* usize::from_str: decimal digits after an optional plus sign, no more than
\* usize::MAX; -1 stands for Err
from_str(s) ==
    LET n == IF s = "" THEN -1
             ELSE IF s = "+" \/ s = "-" THEN -1
             ELSE IF CharAt(s, 1) = "+" THEN ParseDigits(s, 2, 0)
             ELSE ParseDigits(s, 1, 0)
    IN  IF n > PcMax THEN -1 ELSE n

DigitChar(d) ==
    CASE d = 0 -> "0" [] d = 1 -> "1" [] d = 2 -> "2" [] d = 3 -> "3"
      [] d = 4 -> "4" [] d = 5 -> "5" [] d = 6 -> "6" [] d = 7 -> "7"
      [] d = 8 -> "8" [] d = 9 -> "9"

\* the decimal digits of n, as they are written in a program
RECURSIVE Decimal(_)
Decimal(n) ==
    IF n < 10 THEN DigitChar(n) ELSE Decimal(n \div 10) \o DigitChar(n % 10)

(***************************************************************************)
(* Register.                                                               *)
(***************************************************************************)
\* stands for the panic of an arithmetic overflow
Overflow == -1

is_odd(val) == val % 2 = 0

\* the sum is computed and dropped
add_assign_discards(val, rhs) == val

add_assign(val, rhs) ==
    IF val + rhs <= RegMax THEN val + rhs
    ELSE IF overflow_checks THEN Overflow
    ELSE (val + rhs) % RegModulus

\* the operand is added where it is to be multiplied
mul_assign_adds(val, rhs) ==
    IF val + rhs <= RegMax THEN val + rhs
    ELSE IF overflow_checks THEN Overflow
    ELSE (val + rhs) % RegModulus

mul_assign(val, rhs) ==
    IF val * rhs <= RegMax THEN val * rhs
    ELSE IF overflow_checks THEN Overflow
    ELSE (val * rhs) % RegModulus

\* the quotient is rounded up
div_assign_rounds_up(val, rhs) == (val + rhs - 1) \div rhs

div_assign(val, rhs) == val \div rhs

(***************************************************************************)
(* Cpu.  Every operation yields the machine after it: the registers, the   *)
(* pc and the panic it ended in (NoPanic when it returned).                *)
(***************************************************************************)
Returned(na, nb, npc) == [a |-> na, b |-> nb, pc |-> npc, panic |-> NoPanic]

Panicked(msg) == [a |-> a, b |-> b, pc |-> pc, panic |-> msg]

get_register(r) == IF r = "A" THEN a ELSE b

\* the value is written to both registers
Assigned_to_both(r, val, npc) == Returned(val, val, npc)

\* the write through the &mut Register that get_register hands out
Assigned(r, val, npc) ==
    IF r = "A" THEN Returned(val, b, npc) ELSE Returned(a, val, npc)

\* the pc is left where it was
hlf_stays(rid) == Assigned(rid, div_assign(get_register(rid), 2), pc)

hlf(rid) == Assigned(rid, div_assign(get_register(rid), 2), pc + 1)

tpl(rid) ==
    LET register == mul_assign(get_register(rid), 3)
    IN  IF register = Overflow THEN Panicked(MulOverflow)
        ELSE Assigned(rid, register, pc + 1)

inc(rid) ==
    LET register == add_assign(get_register(rid), 1)
    IN  IF register = Overflow THEN Panicked(AddOverflow)
        ELSE Assigned(rid, register, pc + 1)

\* the offset is taken off the pc
jmp_subtracts(offset) == Returned(a, b, pc - offset)

\* pc += offset on a usize: past usize::MAX the sum panics in a build with
\* overflow checks and wraps in one without
jmp(offset) ==
    IF pc + offset <= PcMax THEN Returned(a, b, pc + offset)
    ELSE IF overflow_checks THEN Panicked(AddOverflow)
    ELSE Returned(a, b, (pc + offset) % PcModulus)

read_hlf(args) ==
    IF Len(args) # 1 THEN Panicked(InvalidArgCount)
    ELSE IF args[1] = "a" THEN hlf("A")
    ELSE IF args[1] = "b" THEN hlf("B")
    ELSE Panicked(InvalidRegister)

read_inc(args) ==
    IF Len(args) # 1 THEN Panicked(InvalidArgCount)
    ELSE IF args[1] = "a" THEN inc("A")
    ELSE IF args[1] = "b" THEN inc("B")
    ELSE Panicked(InvalidRegister)

read_tpl(args) ==
    IF Len(args) # 1 THEN Panicked(InvalidArgCount)
    ELSE IF args[1] = "a" THEN tpl("A")
    ELSE IF args[1] = "b" THEN tpl("B")
    ELSE Panicked(InvalidRegister)

\* the sign check, the parse and the jump shared by read_jmp and read_jio
JumpBy(arg) ==
    IF Len(arg) < 1 THEN Panicked(SplitAtPanic)
    ELSE LET sign == SubSeq(arg, 1, 1)
             offset_str == SubSeq(arg, 2, Len(arg))
         IN  IF sign # "+" THEN Panicked(UnexpectedSign)
             ELSE IF from_str(offset_str) < 0 THEN Panicked(UnwrapErr)
             ELSE jmp(from_str(offset_str))

read_jmp(args) ==
    IF Len(args) # 1 THEN Panicked(InvalidArgCount)
    ELSE JumpBy(args[1])

read_jio(args) ==
    IF Len(args) # 2 THEN Panicked(InvalidArgCount)
    ELSE IF args[1] \notin {"a,", "b,"} THEN Panicked(InvalidRegister)
    ELSE LET register == IF args[1] = "a," THEN a ELSE b
         IN  IF ~is_odd(register) THEN Returned(a, b, pc + 1)
             ELSE JumpBy(args[2])

exec(data) ==
    LET tokens == split(data)
        opcode == tokens[1]
        args == SubSeq(tokens, 2, Len(tokens))
    IN  CASE opcode = "hlf" -> read_hlf(args)
          [] opcode = "inc" -> read_inc(args)
          [] opcode = "jio" -> read_jio(args)
          [] opcode = "jmp" -> read_jmp(args)
          [] opcode = "tpl" -> read_tpl(args)
          [] OTHER -> Panicked(IllegalInstruction)

\* Rom::get indexes the Vec: an index past the end panics
InRange(index) == index < Len(rom)

get(index) == rom[index + 1]

\* the line is taken out of the Vec where it is to be cloned
instructions_after_get_removes(index) ==
    SubSeq(rom, 1, index) \o SubSeq(rom, index + 2, Len(rom))

\* the instructions of the Rom after get(index): get borrows the Rom mutably
\* but only clones the line
instructions_after_get(index) == rom

step == IF ~InRange(pc) THEN Panicked(IndexOutOfBounds) ELSE exec(get(pc))

(***************************************************************************)
(* Programs.                                                               *)
(***************************************************************************)
\* a jump by the largest offset that usize::from_str accepts
JmpMaxLine == "jmp +" \o Decimal(PcMax)

Lines ==
    {"hlf a", "hlf b", "tpl a", "tpl b", "inc a", "inc b",
     "jmp +2", "jmp +0", "jmp -1", JmpMaxLine,
     "jio a, +2", "jio b, +2", "jie a, +2",
     "jio a, x2", "jio a +2", "inc a,",
     "inc c", "inc", "nop", "jmp +x"}

SeqsUpTo(S, n) == UNION {[1..k -> S] : k \in 0..n}

IncLine(rid) == IF rid = "A" THEN "inc a" ELSE "inc b"

IncProgram(rid, n) == [k \in 1..n |-> IncLine(rid)]

\* n times inc a, then m times inc b: the registers are set to n and m, the
\* way the unit tests set them before the operation they test
Preset(n, m) == IncProgram("A", n) \o IncProgram("B", m)

Presets ==
    {Preset(x[1], x[2]) :
        x \in {y \in (0..MaxIncs) \X (0..MaxIncs) : y[1] + y[2] <= MaxIncs}}

Scenario2 == <<"inc a", "jio a, +2", "tpl a", "inc a">>

Scenario3 == <<"inc a", "jmp +2", "tpl a", "inc a">>

Programs ==
    SeqsUpTo(Lines, MaxLen)
        \cup Presets
        \cup {p \o <<l>> : p \in Presets, l \in Lines}
        \cup {Scenario2, Scenario3}

(***************************************************************************)
(* The machine built by main and the loop that drives it.  last is a       *)
(* history variable: the machine before the latest step and the line that  *)
(* step fetched (the line exec prints).                                    *)
(***************************************************************************)
NoStep == [stepped |-> FALSE, fetched |-> FALSE, line |-> "", a |-> 0, b |-> 0, pc |-> 0]

\* the first line is taken for line 1
Cpu_new_from_one == [a |-> 0, b |-> 0, pc |-> 1]

\* Cpu::new: two registers from Register::new and the pc
Cpu_new == [a |-> 0, b |-> 0, pc |-> 0]

Init ==
    /\ rom \in Programs
    /\ overflow_checks \in BOOLEAN
    /\ a = Cpu_new.a
    /\ b = Cpu_new.b
    /\ pc = Cpu_new.pc
    /\ i = LoopFirst
    /\ status = "Running"
    /\ panic_msg = NoPanic
    /\ last = NoStep

\* the loop goes on after a panic, as if main caught it and stepped again
Step_after_panic ==
    /\ status \in {"Running", "Panicked"}
    /\ i < LoopEnd
    /\ LET r == step
       IN  /\ a' = r.a
           /\ b' = r.b
           /\ pc' = r.pc
           /\ panic_msg' = r.panic
           /\ status' = IF r.panic = NoPanic THEN "Running" ELSE "Panicked"
    /\ last' = [stepped |-> TRUE, fetched |-> InRange(pc),
                line |-> IF InRange(pc) THEN get(pc) ELSE "",
                a |-> a, b |-> b, pc |-> pc]
    /\ i' = i + 1
    /\ rom' = IF InRange(pc) THEN instructions_after_get(pc) ELSE rom
    /\ UNCHANGED overflow_checks

\* one iteration of the loop of main: cpu.step()
Step ==
    /\ status = "Running"
    /\ i < LoopEnd
    /\ LET r == step
       IN  /\ a' = r.a
           /\ b' = r.b
           /\ pc' = r.pc
           /\ panic_msg' = r.panic
           /\ status' = IF r.panic = NoPanic THEN "Running" ELSE "Panicked"
    /\ last' = [stepped |-> TRUE, fetched |-> InRange(pc),
                line |-> IF InRange(pc) THEN get(pc) ELSE "",
                a |-> a, b |-> b, pc |-> pc]
    /\ i' = i + 1
    /\ rom' = IF InRange(pc) THEN instructions_after_get(pc) ELSE rom
    /\ UNCHANGED overflow_checks

\* the loop of main is over: main returns
Return ==
    /\ status = "Running"
    /\ i = LoopEnd
    /\ status' = "Exited"
    /\ UNCHANGED <<rom, a, b, pc, i, panic_msg, overflow_checks, last>>

Next == Step \/ Return

Spec == Init /\ [][Next]_vars

\* the program is built again, in either profile, and run again on the same
\* rom once a run has ended
Rerun ==
    /\ status # "Running"
    /\ overflow_checks' \in BOOLEAN
    /\ a' = Cpu_new.a
    /\ b' = Cpu_new.b
    /\ pc' = Cpu_new.pc
    /\ i' = LoopFirst
    /\ status' = "Running"
    /\ panic_msg' = NoPanic
    /\ last' = NoStep
    /\ UNCHANGED rom

NextRuns == Step \/ Return \/ Rerun

\* run after run of the program
SpecRuns == Init /\ [][NextRuns]_vars

TypeOK ==
    /\ rom \in Programs
    /\ a \in 0..RegMax
    /\ b \in 0..RegMax
    /\ pc \in 0..PcMax
    /\ i \in LoopFirst..LoopEnd
    /\ status \in {"Running", "Panicked", "Exited"}
    /\ overflow_checks \in BOOLEAN

(***************************************************************************)
(* Vocabulary of the properties.                                           *)
(***************************************************************************)
\* the value of register rid in a record of the machine
RegOf(m, rid) == IF rid = "A" THEN m.a ELSE m.b

Now == [a |-> a, b |-> b, pc |-> pc]

\* the latest step fetched this line and handed it to exec
Executed(line) == last.stepped /\ last.fetched /\ last.line = line

\* the latest step left both registers as they were
RegistersKept == a = last.a /\ b = last.b

\* the machine stopped and no error was raised
HaltedNormally == status # "Running" /\ panic_msg = NoPanic

HlfLine(rid) == IF rid = "A" THEN "hlf a" ELSE "hlf b"

TplLine(rid) == IF rid = "A" THEN "tpl a" ELSE "tpl b"

JioLine(rid) == IF rid = "A" THEN "jio a, +2" ELSE "jio b, +2"

JmpOffsets == {-1, 0, 2}

JmpLine(k) == CASE k = -1 -> "jmp -1" [] k = 0 -> "jmp +0" [] k = 2 -> "jmp +2"

\* one line for each way of being malformed: unknown opcode, wrong operand
\* count, unknown register, malformed offset (of jmp and of jio)
MalformedLines == {"nop", "inc", "inc c", "jmp +x", "jio a, x2"}

(***************************************************************************)
(* C1: a step taken with pc outside the program executes nothing, keeps    *)
(* the registers and pc, and stops the machine as a normal, non-error      *)
(* outcome; and the machine stops normally only with pc outside the        *)
(* program.  The code panics on the out-of-range index instead.            *)
(***************************************************************************)
C1_OutOfRangeHaltsNormally ==
    /\ (last.stepped /\ last.pc >= Len(rom))
          => (HaltedNormally /\ RegistersKept /\ pc = last.pc)
    /\ HaltedNormally => pc >= Len(rom)

(***************************************************************************)
(* C2: jio r, offset moves pc by offset when r is exactly 1 and by 1 for   *)
(* every other value of r, and changes no register.  The code jumps when   *)
(* r is even.                                                              *)
(***************************************************************************)
C2_JioJumpsIffOne ==
    \A rid \in RegisterId :
        Executed(JioLine(rid)) =>
            /\ panic_msg = NoPanic
            /\ RegistersKept
            /\ pc = last.pc + (IF RegOf(last, rid) = 1 THEN 2 ELSE 1)

(***************************************************************************)
(* C3: jie r, offset is a legal instruction: it moves pc by offset when r  *)
(* is even and by 1 when r is odd, changes no register and raises no       *)
(* failure.  The code rejects the opcode.                                  *)
(***************************************************************************)
C3_JieIsLegal ==
    Executed("jie a, +2") =>
        /\ panic_msg = NoPanic
        /\ RegistersKept
        /\ pc = last.pc + (IF last.a % 2 = 0 THEN 2 ELSE 1)

(***************************************************************************)
(* C4: jmp k, for k negative, zero or positive, sets pc to old pc + k,     *)
(* changes no register and is not checked against the program bounds: the  *)
(* machine keeps running.  The code rejects every offset written with a    *)
(* minus sign.                                                             *)
(***************************************************************************)
C4_JmpAnySignedOffset ==
    \A k \in JmpOffsets :
        Executed(JmpLine(k)) =>
            /\ panic_msg = NoPanic
            /\ status = "Running"
            /\ RegistersKept
            /\ pc = last.pc + k

(***************************************************************************)
(* C5: a step on a malformed line ends in a decode failure and leaves the  *)
(* registers and pc as they were, whatever the registers hold.  The code   *)
(* does not look at the offset of a jio that is not taken.                 *)
(***************************************************************************)
C5_MalformedLineFails ==
    \A line \in MalformedLines :
        Executed(line) =>
            /\ panic_msg \in DecodePanics
            /\ RegistersKept
            /\ pc = last.pc

(***************************************************************************)
(* C6: a run steps until the machine has halted or a line failed to        *)
(* decode, no fewer and no more steps, and then yields the registers; a    *)
(* program of n inc a lines ends halted with a = n and b = 0.  The loop of *)
(* main takes nine steps at most and ends in a panic when the pc leaves    *)
(* the program earlier.  (A register overflow is left aside here.)         *)
(***************************************************************************)
C6_RunToCompletion ==
    /\ status = "Exited" => pc >= Len(rom)
    /\ status = "Panicked" => panic_msg \in DecodePanics \cup {AddOverflow, MulOverflow}
    /\ \A n \in 0..MaxIncs :
          (n <= RegMax /\ rom = IncProgram("A", n) /\ status # "Running")
              => (HaltedNormally /\ a = n /\ b = 0)

(***************************************************************************)
(* C7: the program inc a; jio a, +2; tpl a; inc a visits pc 0, 1, 3 and    *)
(* stops at pc 4 with a = 2 and b = 0: the tpl at index 2 is never         *)
(* executed.  The code does not take the jio with a = 1.                   *)
(***************************************************************************)
C7_Scenario2 ==
    rom = Scenario2 =>
        /\ pc \in {0, 1, 3, 4}
        /\ ~Executed("tpl a")
        /\ status # "Running" => (pc = 4 /\ a = 2 /\ b = 0)

(***************************************************************************)
(* C8: hlf r sets r to v/2 when its value v is even and to (v-1)/2 when v  *)
(* is odd, and advances pc by exactly 1.                                   *)
(***************************************************************************)
C8_HlfHalves ==
    \A rid \in RegisterId :
        Executed(HlfLine(rid)) =>
            LET v == RegOf(last, rid)
                r == RegOf(Now, rid)
            IN  /\ panic_msg = NoPanic
                /\ v % 2 = 0 => 2 * r = v
                /\ v % 2 = 1 => 2 * r = v - 1
                /\ pc = last.pc + 1

\* hlf a has run on the odd value 7 and left 3
C8_Witness == Executed("hlf a") /\ last.a = 7 /\ a = 3 /\ pc = last.pc + 1

(***************************************************************************)
(* C9: tpl r on a value v whose triple fits the register sets r to         *)
(* v + v + v, whatever was executed before, and advances pc by exactly 1.  *)
(***************************************************************************)
C9_TplTriples ==
    \A rid \in RegisterId :
        (Executed(TplLine(rid)) /\ 3 * RegOf(last, rid) <= RegMax) =>
            LET v == RegOf(last, rid)
            IN  /\ panic_msg = NoPanic
                /\ RegOf(Now, rid) = v + v + v
                /\ pc = last.pc + 1

\* tpl a has run on 2 and left 6
C9_Witness == Executed("tpl a") /\ last.a = 2 /\ a = 6 /\ pc = last.pc + 1

(***************************************************************************)
(* C10: inc r executed n times from the initial state leaves r = n, and    *)
(* each inc r adds exactly 1 to r and advances pc by exactly 1.            *)
(* As stated, for every n and every value: it fails at the register's      *)
(* largest value, where the sum does not fit.                              *)
(***************************************************************************)
C10_IncAlwaysAddsOne ==
    /\ \A rid \in RegisterId :
          Executed(IncLine(rid)) =>
              /\ RegOf(Now, rid) = RegOf(last, rid) + 1
              /\ pc = last.pc + 1
    /\ \A n \in 0..MaxIncs, m \in 0..MaxIncs :
          (/\ i - LoopFirst = n + m
           /\ pc = n + m
           /\ pc <= Len(rom)
           /\ SubSeq(rom, 1, pc) = Preset(n, m))
              => (a = n /\ b = m)

(***************************************************************************)
(* C10, amended: inc r executed n times from the initial state leaves      *)
(* r = n for every n up to the largest value of the register, and each     *)
(* inc r on a value below that largest value adds exactly 1 to r and       *)
(* advances pc by exactly 1.                                               *)
(***************************************************************************)
C10_IncAddsOneWithinWidth ==
    /\ \A rid \in RegisterId :
          (Executed(IncLine(rid)) /\ RegOf(last, rid) + 1 <= RegMax) =>
              /\ panic_msg = NoPanic
              /\ RegOf(Now, rid) = RegOf(last, rid) + 1
              /\ pc = last.pc + 1
    /\ \A n \in 0..MaxIncs, m \in 0..MaxIncs :
          (/\ n <= RegMax
           /\ m <= RegMax
           /\ i - LoopFirst = n + m
           /\ pc = n + m
           /\ pc <= Len(rom)
           /\ SubSeq(rom, 1, pc) = Preset(n, m))
              => (a = n /\ b = m)

\* inc b has run for the fifth time in a program of five inc b lines
C10_Witness ==
    /\ rom = IncProgram("B", 5)
    /\ Executed("inc b")
    /\ last.b = 4
    /\ b = 5
    /\ pc = 5

(***************************************************************************)
(* C11: tpl r and inc r on a value whose result exceeds the register       *)
(* width follow one policy, the same in every execution: the outcome seen  *)
(* when such an instruction was executed (the saturated value, the wrapped *)
(* value or the overflow failure) is the outcome of the same operation on  *)
(* the same value from then on, in this run and in the next.               *)
(* The source leaves the policy to the build: a build with overflow        *)
(* checks panics where a build without them wraps.                         *)
(***************************************************************************)
C11_OneOverflowPolicy ==
    [][\A rid \in RegisterId, v \in 0..RegMax, seen \in {Overflow} \cup 0..RegMax :
          (/\ v = RegOf(last, rid)
           /\ seen = IF status = "Panicked" THEN Overflow ELSE RegOf(Now, rid))
          =>  /\ (Executed(TplLine(rid)) /\ 3 * v > RegMax) =>
                    /\ seen \in {RegMax, (3 * v) % RegModulus, Overflow}
                    /\ mul_assign(v, 3)' = seen
              /\ (Executed(IncLine(rid)) /\ v + 1 > RegMax) =>
                    /\ seen \in {RegMax, (v + 1) % RegModulus, Overflow}
                    /\ add_assign(v, 1)' = seen]_vars

(***************************************************************************)
(* C12: decoding is a function of the line alone: whether a line is        *)
(* accepted or rejected is the same in any two machine states, whatever    *)
(* the registers and the pc hold.  The code parses the offset of a jio     *)
(* only when the jump is taken, so the register decides.                   *)
(***************************************************************************)
Rejected(line) == exec(line).panic \in DecodePanics

C12_DecodeIgnoresState ==
    [][\A line \in Lines : Rejected(line)' <=> Rejected(line)]_vars

(***************************************************************************)
(* C13: a decode failure is fatal and never retried: once a step has       *)
(* failed to decode its line, nothing is fetched or applied any more, the  *)
(* registers and the pc never change again and the run never ends as a     *)
(* successful halt.                                                        *)
(***************************************************************************)
DecodeFailed == status = "Panicked" /\ panic_msg \in DecodePanics

C13_DecodeFailureIsFatal == [][DecodeFailed => UNCHANGED vars]_vars

\* a line failed to decode while main had iterations left and the rom lines left
C13_Witness ==
    /\ DecodeFailed
    /\ Executed("inc c")
    /\ i < LoopEnd
    /\ pc + 1 < Len(rom)

(***************************************************************************)
(* C14: the program is read-only during execution: no step, halting or     *)
(* failing ones included, changes the sequence of lines of the rom.        *)
(***************************************************************************)
C14_RomIsReadOnly == [][rom' = rom]_vars

\* the run of scenario 3 has fetched four lines and ended past the last one
C14_Witness ==
    /\ rom = Scenario3
    /\ status = "Panicked"
    /\ panic_msg = IndexOutOfBounds
    /\ pc = Len(rom)

(***************************************************************************)
(* C15: a trailing comma is stripped from an operand before it is read,    *)
(* for every opcode: in every machine state jio a +2 does what jio a, +2   *)
(* does, and inc a, does what inc a does.  The code compares the operand   *)
(* of jio with the name and its comma, and the operand of the other        *)
(* opcodes with the bare name.                                             *)
(***************************************************************************)
C15_TrailingCommaStripped ==
    /\ exec("jio a +2") = exec("jio a, +2")
    /\ exec("inc a,") = exec("inc a")
    /\ \A line \in {"jio a +2", "inc a,"} : Executed(line) => panic_msg = NoPanic

(***************************************************************************)
(* C16: a newly constructed engine, for any program, is running with       *)
(* pc = 0, a = 0 and b = 0.                                                *)
(***************************************************************************)
C16_NewEngine ==
    ~last.stepped => (status = "Running" /\ pc = 0 /\ a = 0 /\ b = 0)

\* the engine built on the rom of scenario 2, before its first step
C16_Witness == ~last.stepped /\ i = LoopFirst /\ rom = Scenario2 /\ pc = 0

(***************************************************************************)
(* C17: every step changes at most one register: hlf r, tpl r and inc r    *)
(* leave the other register unchanged, and jmp and jio, taken or not,      *)
(* leave both unchanged.                                                   *)
(***************************************************************************)
Other(rid) == IF rid = "A" THEN "B" ELSE "A"

JumpLines == {"jmp +2", "jmp +0", JmpMaxLine, "jio a, +2", "jio b, +2"}

C17_AtMostOneRegister ==
    /\ last.stepped => (a = last.a \/ b = last.b)
    /\ \A rid \in RegisterId :
          (Executed(HlfLine(rid)) \/ Executed(TplLine(rid)) \/ Executed(IncLine(rid)))
              => RegOf(Now, Other(rid)) = RegOf(last, Other(rid))
    /\ \A line \in JumpLines : Executed(line) => RegistersKept

\* hlf a has halved a = 2 and left b = 3 alone
C17_Witness ==
    Executed("hlf a") /\ last.a = 2 /\ last.b = 3 /\ a = 1 /\ b = 3

(***************************************************************************)
(* C18: pc never decreases: after every step that completes without        *)
(* failure the pc is greater than or equal to the pc before it.            *)
(* As stated it fails: an offset so large that pc + offset exceeds the     *)
(* largest pc wraps around in a build without overflow checks.             *)
(***************************************************************************)
StepCompleted == last.stepped /\ panic_msg = NoPanic

C18_PcNeverDecreases == StepCompleted => pc >= last.pc

\* the digits after the sign of the last operand of a line, as a number
OffsetOf(line) ==
    LET tokens == split(line)
        arg == tokens[Len(tokens)]
    IN  from_str(SubSeq(arg, 2, Len(arg)))

IsJump(line) == split(line)[1] \in {"jmp", "jio"}

(***************************************************************************)
(* C18, amended: after every step that completes without failure the pc    *)
(* is greater than or equal to the pc before it, unless the step is a jump *)
(* whose pc + offset exceeds the largest pc in a build without overflow    *)
(* checks: there the pc wraps around to a smaller one.                     *)
(***************************************************************************)
C18_PcNeverDecreasesUnlessWrapped ==
    StepCompleted =>
        \/ pc >= last.pc
        \/ /\ ~overflow_checks
           /\ last.fetched
           /\ IsJump(last.line)
           /\ last.pc + OffsetOf(last.line) > PcMax
           /\ pc = (last.pc + OffsetOf(last.line)) % PcModulus

\* jmp +2 has moved the pc forward by 2 and the machine runs on
C18_Witness ==
    Executed("jmp +2") /\ pc = last.pc + 2 /\ last.pc = 1 /\ status = "Running"

(***************************************************************************)
(* C19: for a program of length N in which no jump has offset 0, stepping  *)
(* from the initial state executes at most N instructions before the pc    *)
(* has left the program or a step has failed; and a jump by 0 that is      *)
(* reached leaves registers and pc unchanged, so that every further step   *)
(* executes it again.                                                      *)
(* As stated it fails: a jump that wraps the pc around leads back into the *)
(* program.                                                                *)
(***************************************************************************)
\* the steps that returned: every step of the loop but a final panic
Executions == (i - LoopFirst) - (IF status = "Panicked" THEN 1 ELSE 0)

ZeroJump(line) == IsJump(line) /\ OffsetOf(line) = 0

HasZeroJump == \E k \in 1..Len(rom) : ZeroJump(rom[k])

\* some jump of the program, taken where it stands, exceeds the largest pc
HasWrappingJump ==
    \E k \in 1..Len(rom) : IsJump(rom[k]) /\ (k - 1) + OffsetOf(rom[k]) > PcMax

ZeroJumpRepeats ==
    \A line \in Lines :
        (Executed(line) /\ panic_msg = NoPanic /\ ZeroJump(line) /\ pc = last.pc)
            => (RegistersKept /\ status # "Panicked" /\ InRange(pc) /\ get(pc) = line)

====
